---- MODULE Spec2Model ----
(***************************************************************************)
(* Model of the image derivative pipeline of functions/src/main.rs:        *)
(* function_handler, handle_key and the key codec (decode_key,             *)
(* to_webp_key, to_sized_webp_key).                                        *)
(*                                                                         *)
(* A Rust String is a sequence of UTF-8 bytes, and rfind and slicing work  *)
(* on byte offsets, so a key is modelled as a sequence of byte values.     *)
(***************************************************************************)
EXTENDS Integers, Sequences, FiniteSets, TLC

(* ---------------------------------------------------------------------- *)
(* Bytes the code names                                                   *)
(* ---------------------------------------------------------------------- *)
SLASH == 47
DOT == 46
PLUS == 43
SPACE == 32
PERCENT == 37
DASH == 45

\* ".webp", the literal of the two format! calls
WebpExt == <<46, 119, 101, 98, 112>>

TARGET_WIDTHS == <<480, 960, 1440, 1920>>
max_width == 1440

(* ---------------------------------------------------------------------- *)
(* Bounds of the model                                                    *)
(* ---------------------------------------------------------------------- *)
\* longest key drawn for the key-derivation specification
MaxKeyLen == 3
\* number of invocations the model holds
MaxInv == 2
\* longest raw key drawn for the decode_key specification
MaxRawLen == 6
\* the largest value of the dimension type in the resize specification (it
\* stands for u32::MAX) and the largest target width drawn there
DimMax == 40
MaxResizeWidth == 6

(* ---------------------------------------------------------------------- *)
(* String helpers (Rust std)                                              *)
(* ---------------------------------------------------------------------- *)
\* Option<usize>::None of rfind
None == -1

\* str::rfind(c): the 0-based byte offset of the last c, or None
RFind(s, c) ==
    LET hits == {i \in 1..Len(s) : s[i] = c}
    IN  IF hits = {} THEN None
        ELSE (CHOOSE i \in hits : \A j \in hits : j <= i) - 1

\* Option::unwrap_or
UnwrapOr(o, d) == IF o = None THEN d ELSE o

\* &key[..n]
Prefix(s, n) == SubSeq(s, 1, n)

\* the decimal text of a u32, as format!("{}", width) writes it
RECURSIVE Decimal(_)
Decimal(n) ==
    IF n < 10 THEN <<48 + n>>
    ELSE Decimal(n \div 10) \o <<48 + (n % 10)>>

\* str::replace(from, to) for single bytes
Replace(s, from, to) == [i \in 1..Len(s) |-> IF s[i] = from THEN to ELSE s[i]]

(* ---------------------------------------------------------------------- *)
(* Key derivation                                                         *)
(* ---------------------------------------------------------------------- *)
\* a variant that cuts at the last dot wherever it stands
to_webp_key_AnyDot(key) ==
    LET last_dot == RFind(key, DOT)
    IN  IF last_dot # None
        THEN Prefix(key, last_dot) \o WebpExt
        ELSE key \o WebpExt

to_webp_key(key) ==
    LET last_slash == UnwrapOr(RFind(key, SLASH), 0)
        last_dot == RFind(key, DOT)
    IN  IF last_dot # None /\ last_dot > last_slash
        THEN Prefix(key, last_dot) \o WebpExt
        ELSE key \o WebpExt

\* a variant that formats the name without the width
to_sized_webp_key_NoWidth(key, width) ==
    LET last_slash == UnwrapOr(RFind(key, SLASH), 0)
        last_dot == RFind(key, DOT)
    IN  IF last_dot # None /\ last_dot > last_slash
        THEN Prefix(key, last_dot) \o WebpExt
        ELSE key \o WebpExt

to_sized_webp_key(key, width) ==
    LET last_slash == UnwrapOr(RFind(key, SLASH), 0)
        last_dot == RFind(key, DOT)
    IN  IF last_dot # None /\ last_dot > last_slash
        THEN Prefix(key, last_dot) \o <<DASH>> \o Decimal(width) \o WebpExt
        ELSE key \o <<DASH>> \o Decimal(width) \o WebpExt

\* Option<u32>::None of the width argument
NoWidth == 0

\* the spec's derive_key(key, width): the two functions behind one name
derive_key(key, width) ==
    IF width = NoWidth THEN to_webp_key(key) ELSE to_sized_webp_key(key, width)

(* ---------------------------------------------------------------------- *)
(* decode_key: '+' to space, then percent-decoding (urlencoding::decode)   *)
(* ---------------------------------------------------------------------- *)
\* the value of a hexadecimal digit byte, or None
from_hex_digit(b) ==
    IF b >= 48 /\ b <= 57 THEN b - 48
    ELSE IF b >= 65 /\ b <= 70 THEN b - 55
    ELSE IF b >= 97 /\ b <= 102 THEN b - 87
    ELSE None

\* the bytes after percent-decoding; an escape that is not two hex digits
\* is kept literally
RECURSIVE decode_binary(_)
decode_binary(data) ==
    IF data = <<>> THEN <<>>
    ELSE IF data[1] # PERCENT THEN <<data[1]>> \o decode_binary(Tail(data))
    ELSE LET rest == Tail(data)
         IN  IF Len(rest) < 2 THEN <<PERCENT>> \o rest
             ELSE IF from_hex_digit(rest[1]) = None
                  THEN <<PERCENT>> \o decode_binary(rest)
             ELSE IF from_hex_digit(rest[2]) = None
                  THEN <<PERCENT, rest[1]>> \o decode_binary(Tail(rest))
             ELSE <<16 * from_hex_digit(rest[1]) + from_hex_digit(rest[2])>>
                  \o decode_binary(SubSeq(rest, 3, Len(rest)))

\* is b a UTF-8 continuation byte within lo..hi
Cont(s, i, lo, hi) == i <= Len(s) /\ s[i] >= lo /\ s[i] <= hi

\* String::from_utf8 succeeds: the well-formed byte sequences of UTF-8
RECURSIVE ValidUtf8(_)
ValidUtf8(s) ==
    IF s = <<>> THEN TRUE
    ELSE LET b == s[1]
             Rest(n) == SubSeq(s, n + 1, Len(s))
         IN  IF b <= 127 THEN ValidUtf8(Rest(1))
             ELSE IF b >= 194 /\ b <= 223
                  THEN Cont(s, 2, 128, 191) /\ ValidUtf8(Rest(2))
             ELSE IF b = 224
                  THEN Cont(s, 2, 160, 191) /\ Cont(s, 3, 128, 191) /\ ValidUtf8(Rest(3))
             ELSE IF b = 237
                  THEN Cont(s, 2, 128, 159) /\ Cont(s, 3, 128, 191) /\ ValidUtf8(Rest(3))
             ELSE IF b >= 225 /\ b <= 239
                  THEN Cont(s, 2, 128, 191) /\ Cont(s, 3, 128, 191) /\ ValidUtf8(Rest(3))
             ELSE IF b = 240
                  THEN Cont(s, 2, 144, 191) /\ Cont(s, 3, 128, 191)
                       /\ Cont(s, 4, 128, 191) /\ ValidUtf8(Rest(4))
             ELSE IF b >= 241 /\ b <= 243
                  THEN Cont(s, 2, 128, 191) /\ Cont(s, 3, 128, 191)
                       /\ Cont(s, 4, 128, 191) /\ ValidUtf8(Rest(4))
             ELSE IF b = 244
                  THEN Cont(s, 2, 128, 143) /\ Cont(s, 3, 128, 191)
                       /\ Cont(s, 4, 128, 191) /\ ValidUtf8(Rest(4))
             ELSE FALSE

\* a variant that percent-decodes the key without replacing '+'
decode_key_KeepPlus(key) ==
    IF key = <<>> THEN <<>>
    ELSE LET decoded == decode_binary(key)
         IN  IF ValidUtf8(decoded) THEN decoded ELSE key

decode_key(key) ==
    IF key = <<>> THEN <<>>
    ELSE LET key_with_spaces == Replace(key, PLUS, SPACE)
             decoded == decode_binary(key_with_spaces)
         IN  IF ValidUtf8(decoded) THEN decoded ELSE key

(* ---------------------------------------------------------------------- *)
(* Object contents and transcoding                                        *)
(* ---------------------------------------------------------------------- *)
\* An object body is a sequence: its head identifies the uploaded bytes
\* (NotAnImage: bytes that no decoder accepts), the rest lists the
\* transcodings applied since (NoWidth for the full-size encode).
NotAnImage == 0
Photo == 1

\* image::load_from_memory succeeds
Decodable(body) == body[1] # NotAnImage

\* the bytes convert_to_webp returns when encoding succeeds
convert_to_webp(img, width) == Append(img, width)

\* a variant that rounds the quotient to the nearest integer
resize_height_Rounded(h, w, width) ==
    LET q == (2 * h * width + w) \div (2 * w)
    IN  IF q > DimMax THEN DimMax ELSE q

\* the height convert_to_webp asks of resize for an image of h rows and w
\* columns: (h as f64 * width as f64 / w as f64) as u32. The f64 product and
\* quotient of dimensions are exact up to the integer part, the cast drops
\* the fraction and saturates at the largest value of the type.
resize_height(h, w, width) ==
    LET q == (h * width) \div w
    IN  IF q > DimMax THEN DimMax ELSE q

\* a variant that keeps the widths below the maximum only
FilterWidths_Strict(ws) == SelectSeq(ws, LAMBDA width : width < max_width)

\* TARGET_WIDTHS.iter().filter(|w| w <= max_width).copied().collect()
FilterWidths(ws) == SelectSeq(ws, LAMBDA width : width <= max_width)

(* ---------------------------------------------------------------------- *)
(* State                                                                  *)
(* ---------------------------------------------------------------------- *)
VARIABLES
    store,          \* the bucket: present keys and their bodies
    store0,         \* the bucket when the event arrived
    faults,         \* the kinds of failure the environment can produce
    raw,            \* event.payload.detail.object.key of each invocation
    bucketOk,       \* the event's bucket name is not empty
    pc,             \* where function_handler / handle_key stands
    key,            \* the decoded key
    img,            \* the decoded image
    width_targets,  \* the filtered widths, one spawned task each
    upc,            \* where each spawned task stands
    joinIdx,        \* the task the join loop awaits next
    result,         \* what function_handler returned: Ok or Err
    message,        \* Response.message of an Ok result
    joinFailed,     \* the join loop met a JoinError
    src,            \* record of the calls on the source object
    tgt,            \* record of the calls on each derivative target
    fk1, fk2, fw, fo1, fo2, fpc, \* inputs and outputs of the key functions
    iw, ih, rh      \* an image's columns and rows, and the height requested

pipeVars == <<store, store0, faults, raw, bucketOk, pc, key, img, width_targets, upc,
              joinIdx, result, message, joinFailed, src, tgt>>
dimVars == <<iw, ih, rh>>
keyVars == <<fk1, fk2, fw, fo1, fo2, fpc, iw, ih, rh>>
vars == <<store, store0, faults, raw, bucketOk, pc, key, img, width_targets, upc,
          joinIdx, result, message, joinFailed, src, tgt,
          fk1, fk2, fw, fo1, fo2, fpc, iw, ih, rh>>

Invs == 1..MaxInv
\* a task index: at most one task per configured width
UnitIds == 1..Len(TARGET_WIDTHS)
\* a derivative target: 0 is the canonical one, u the one of task u
Canonical == 0
Targets == {Canonical} \cup UnitIds

UnsupportedMsg == "Unsupported event payload"
SuccessMsg == "Successfully processed image"

\* the key a target reads and writes
TargetKey(i, t) ==
    IF t = Canonical THEN to_webp_key(key[i])
    ELSE to_sized_webp_key(key[i], width_targets[i][t])

\* a variant in which every task resizes to the first width
TargetWidth_FirstWidth(i, t) == IF t = Canonical THEN NoWidth ELSE width_targets[i][1]

\* the width argument a target passes to convert_to_webp
TargetWidth(i, t) == IF t = Canonical THEN NoWidth ELSE width_targets[i][t]

\* put_object succeeded: the key now holds the body
StorePut(st, k, body) ==
    [x \in DOMAIN st \cup {k} |-> IF x = k THEN body ELSE st[x]]

NoCalls == [exists |-> 0, encode |-> 0, put |-> 0, found |-> "none", failed |-> "none"]

(* ---------------------------------------------------------------------- *)
(* Initial states                                                         *)
(* ---------------------------------------------------------------------- *)
\* raw keys of the events: "", "a.b", "a", "a%2Fb+.a", "a.webp"
RawKeys == { <<>>, <<97, DOT, 98>>, <<97>>,
             <<97, PERCENT, 50, 70, 98, PLUS, DOT, 97>>,
             <<97>> \o WebpExt }

\* widths whose derivative may be in the bucket already
InitWidths == {NoWidth} \cup {TARGET_WIDTHS[n] : n \in 1..Len(TARGET_WIDTHS)}

\* a bucket holding the source (or not) and the derivatives of the widths W
MkStore(k, s, W) ==
    LET derived == {derive_key(k, w) : w \in W}
        own == IF s = "absent" THEN {} ELSE {k}
    IN  [x \in derived \cup own |->
            IF x \in own
            THEN (IF s = "img" THEN <<Photo>> ELSE <<NotAnImage>>)
            ELSE convert_to_webp(<<Photo>>,
                     CHOOSE w \in W : derive_key(k, w) = x)]

KeyIdle ==
    /\ fk1 = <<>> /\ fk2 = <<>> /\ fw = NoWidth
    /\ fo1 = <<>> /\ fo2 = <<>> /\ fpc = "off"
    /\ iw = 1 /\ ih = 1 /\ rh = 0

\* every kind of failure
AllFaults == {"get", "exists", "encode", "put", "panic"}

\* the events of the invocations in `active` have arrived, all for one
\* object: its raw key is one of rawKeys, the source is in one of the states
\* sources, the derivatives of one of the width sets are in the bucket, and
\* the environment can fail in one of the ways faultSets
PipeInitWith(active, rawKeys, sources, widthSets, faultSets) ==
    /\ \E r \in rawKeys :
         /\ raw = [i \in Invs |-> IF i \in active THEN r ELSE <<>>]
         /\ \E s \in sources, W \in widthSets :
              store = MkStore(decode_key(r), s, W)
    /\ store0 = store
    /\ faults \in faultSets
    /\ \E b \in BOOLEAN : bucketOk = [i \in Invs |-> b]
    /\ pc = [i \in Invs |-> IF i \in active THEN "start" ELSE "off"]
    /\ key = [i \in Invs |-> <<>>]
    /\ img = [i \in Invs |-> <<>>]
    /\ width_targets = [i \in Invs |-> <<>>]
    /\ upc = [i \in Invs |-> [u \in UnitIds |-> "idle"]]
    /\ joinIdx = [i \in Invs |-> 0]
    /\ result = [i \in Invs |-> "pending"]
    /\ message = [i \in Invs |-> ""]
    /\ joinFailed = [i \in Invs |-> FALSE]
    /\ src = [i \in Invs |-> [gets |-> 0, decodes |-> 0, fetched |-> "none",
                                decoded |-> "none"]]
    /\ tgt = [i \in Invs |-> [t \in Targets |-> NoCalls]]

PipeInit(active) ==
    PipeInitWith(active, RawKeys, {"absent", "img", "junk"}, SUBSET InitWidths,
                 {AllFaults})

Init == PipeInit({1}) /\ KeyIdle

(* ---------------------------------------------------------------------- *)
(* function_handler and handle_key                                        *)
(* ---------------------------------------------------------------------- *)
\* handle_key returns r and function_handler maps it to its own result
Return(i, r) ==
    /\ pc' = [pc EXCEPT ![i] = "done"]
    /\ result' = [result EXCEPT ![i] = r]
    /\ message' = [message EXCEPT ![i] = IF r = "Ok" THEN SuccessMsg ELSE ""]

\* a variant that skips a missing source only, and returns other errors
OnSourceError_Propagate(e) == IF e = "notfound" THEN "Ok" ELSE "Err"

\* a variant that returns the error of a missing source
OnSourceError_NotFoundFatal(e) == IF e = "notfound" THEN "Err" ELSE "Ok"

\* the arm of handle_key for a failed download: log and return Ok(())
OnSourceError(e) == "Ok"

\* a variant that returns the decode error
OnDecodeError_Fatal == "Err"

\* the arm of handle_key for bytes that do not decode: warn and return Ok(())
OnDecodeError == "Ok"

\* a variant that logs the canonical error and returns Ok(())
OnCanonicalError_Swallow == "Ok"

\* the `?` on the canonical exists / convert / put: the error is returned
OnCanonicalError == "Err"

\* what the store can answer to a get of key k
GetOutcomes(k) ==
    (IF k \in DOMAIN store THEN {"ok"} ELSE {"notfound"})
        \cup (IF "get" \in faults THEN {"error"} ELSE {})

\* a variant of object_exists that never answers true
ExistsOutcomes_NeverFinds(k) ==
    {"absent"} \cup (IF "exists" \in faults THEN {"error"} ELSE {})

\* what object_exists can return for key k
ExistsOutcomes(k) ==
    (IF k \in DOMAIN store THEN {"present"} ELSE {"absent"})
        \cup (IF "exists" \in faults THEN {"error"} ELSE {})

\* what convert_to_webp can return
EncodeOutcomes == {"ok"} \cup (IF "encode" \in faults THEN {"error"} ELSE {})

\* what put_webp_object can return
PutOutcomes == {"ok"} \cup (IF "put" \in faults THEN {"error"} ELSE {})

\* function_handler up to the call of handle_key
Receive(i) ==
    /\ pc[i] = "start"
    /\ LET k == decode_key(raw[i])
       IN  /\ key' = [key EXCEPT ![i] = k]
           /\ IF ~bucketOk[i] \/ k = <<>>
              THEN /\ pc' = [pc EXCEPT ![i] = "done"]
                   /\ result' = [result EXCEPT ![i] = "Ok"]
                   /\ message' = [message EXCEPT ![i] = UnsupportedMsg]
              ELSE /\ pc' = [pc EXCEPT ![i] = "fetch"]
                   /\ UNCHANGED <<result, message>>
    /\ UNCHANGED <<store, store0, faults, raw, bucketOk, img, width_targets, upc,
                   joinIdx, joinFailed, src, tgt>>
    /\ UNCHANGED keyVars

\* handle_key: download the source, decode it, derive the canonical key
Fetch(i) ==
    /\ pc[i] = "fetch"
    /\ \E o \in GetOutcomes(key[i]) :
         /\ src' = [src EXCEPT ![i] =
                      [gets |-> @.gets + 1,
                       decodes |-> IF o = "ok" THEN @.decodes + 1 ELSE @.decodes,
                       fetched |-> o,
                       decoded |-> IF o # "ok" THEN "none"
                                   ELSE IF Decodable(store[key[i]]) THEN "ok"
                                   ELSE "unsupported"]]
         /\ IF o # "ok"
            THEN Return(i, OnSourceError(o)) /\ UNCHANGED img
            ELSE LET body == store[key[i]]
                 IN  IF ~Decodable(body)
                     THEN Return(i, OnDecodeError) /\ UNCHANGED img
                     ELSE /\ img' = [img EXCEPT ![i] = body]
                          /\ IF to_webp_key(key[i]) = <<>>
                             THEN Return(i, "Ok")
                             ELSE /\ pc' = [pc EXCEPT ![i] = "canon_exists"]
                                  /\ UNCHANGED <<result, message>>
    /\ UNCHANGED <<store, store0, faults, raw, bucketOk, key, width_targets, upc,
                   joinIdx, joinFailed, tgt>>
    /\ UNCHANGED keyVars

\* a variant that encodes and writes the canonical derivative even if found
CanonExists_AlwaysWrite(i) ==
    /\ pc[i] = "canon_exists"
    /\ \E o \in ExistsOutcomes(TargetKey(i, Canonical)) :
         /\ tgt' = [tgt EXCEPT ![i][Canonical] =
                      [@ EXCEPT !.exists = @ + 1, !.found = o,
                                !.failed = IF o = "error" THEN "exists" ELSE "none"]]
         /\ IF o = "error"
            THEN Return(i, OnCanonicalError)
            ELSE /\ pc' = [pc EXCEPT ![i] = "canon_encode"]
                 /\ UNCHANGED <<result, message>>
    /\ UNCHANGED <<store, store0, faults, raw, bucketOk, key, img, width_targets, upc,
                   joinIdx, joinFailed, src>>
    /\ UNCHANGED keyVars

\* a variant that goes on to the tasks without the canonical check
CanonExists_Deferred(i) ==
    /\ pc[i] = "canon_exists"
    /\ pc' = [pc EXCEPT ![i] = "fanout"]
    /\ UNCHANGED <<store, store0, faults, raw, bucketOk, key, img, width_targets, upc,
                   joinIdx, result, message, joinFailed, src, tgt>>
    /\ UNCHANGED keyVars

\* a variant that returns as soon as the canonical derivative is found
CanonExists_EarlyReturn(i) ==
    /\ pc[i] = "canon_exists"
    /\ \E o \in ExistsOutcomes(TargetKey(i, Canonical)) :
         /\ tgt' = [tgt EXCEPT ![i][Canonical] =
                      [@ EXCEPT !.exists = @ + 1, !.found = o,
                                !.failed = IF o = "error" THEN "exists" ELSE "none"]]
         /\ IF o = "error"
            THEN Return(i, OnCanonicalError)
            ELSE IF o = "present"
            THEN Return(i, "Ok")
            ELSE /\ pc' = [pc EXCEPT ![i] = "canon_encode"]
                 /\ UNCHANGED <<result, message>>
    /\ UNCHANGED <<store, store0, faults, raw, bucketOk, key, img, width_targets, upc,
                   joinIdx, joinFailed, src>>
    /\ UNCHANGED keyVars

\* handle_key: object_exists on the canonical key
CanonExists(i) ==
    /\ pc[i] = "canon_exists"
    /\ \E o \in ExistsOutcomes(TargetKey(i, Canonical)) :
         /\ tgt' = [tgt EXCEPT ![i][Canonical] =
                      [@ EXCEPT !.exists = @ + 1, !.found = o,
                                !.failed = IF o = "error" THEN "exists" ELSE "none"]]
         /\ IF o = "error"
            THEN Return(i, OnCanonicalError)
            ELSE /\ pc' = [pc EXCEPT ![i] =
                             IF o = "present" THEN "fanout" ELSE "canon_encode"]
                 /\ UNCHANGED <<result, message>>
    /\ UNCHANGED <<store, store0, faults, raw, bucketOk, key, img, width_targets, upc,
                   joinIdx, joinFailed, src>>
    /\ UNCHANGED keyVars

\* handle_key: convert_to_webp(&img, None)
CanonEncode(i) ==
    /\ pc[i] = "canon_encode"
    /\ \E o \in EncodeOutcomes :
         /\ tgt' = [tgt EXCEPT ![i][Canonical] =
                      [@ EXCEPT !.encode = @ + 1,
                                !.failed = IF o = "error" THEN "encode" ELSE "none"]]
         /\ IF o = "error"
            THEN Return(i, OnCanonicalError)
            ELSE /\ pc' = [pc EXCEPT ![i] = "canon_put"]
                 /\ UNCHANGED <<result, message>>
    /\ UNCHANGED <<store, store0, faults, raw, bucketOk, key, img, width_targets, upc,
                   joinIdx, joinFailed, src>>
    /\ UNCHANGED keyVars

\* a variant that logs a failed canonical put and goes on to the sizes
CanonPut_LogOnly(i) ==
    /\ pc[i] = "canon_put"
    /\ \E o \in PutOutcomes :
         /\ tgt' = [tgt EXCEPT ![i][Canonical] =
                      [@ EXCEPT !.put = @ + 1,
                                !.failed = IF o = "error" THEN "put" ELSE "none"]]
         /\ store' = IF o = "error" THEN store
                     ELSE StorePut(store, TargetKey(i, Canonical),
                                   convert_to_webp(img[i], NoWidth))
         /\ pc' = [pc EXCEPT ![i] = "fanout"]
         /\ UNCHANGED <<result, message>>
    /\ UNCHANGED <<store0, faults, raw, bucketOk, key, img, width_targets, upc,
                   joinIdx, joinFailed, src>>
    /\ UNCHANGED keyVars

\* handle_key: put_webp_object of the canonical derivative
CanonPut(i) ==
    /\ pc[i] = "canon_put"
    /\ \E o \in PutOutcomes :
         /\ tgt' = [tgt EXCEPT ![i][Canonical] =
                      [@ EXCEPT !.put = @ + 1,
                                !.failed = IF o = "error" THEN "put" ELSE "none"]]
         /\ IF o = "error"
            THEN Return(i, OnCanonicalError) /\ UNCHANGED store
            ELSE /\ store' = StorePut(store, TargetKey(i, Canonical),
                                      convert_to_webp(img[i], NoWidth))
                 /\ pc' = [pc EXCEPT ![i] = "fanout"]
                 /\ UNCHANGED <<result, message>>
    /\ UNCHANGED <<store0, faults, raw, bucketOk, key, img, width_targets, upc,
                   joinIdx, joinFailed, src>>
    /\ UNCHANGED keyVars

\* handle_key: filter the widths and spawn one task per width
FanOut(i) ==
    /\ pc[i] = "fanout"
    /\ LET wt == FilterWidths(TARGET_WIDTHS)
       IN  /\ width_targets' = [width_targets EXCEPT ![i] = wt]
           /\ IF wt = <<>>
              THEN Return(i, "Ok") /\ UNCHANGED <<upc, joinIdx>>
              ELSE /\ upc' = [upc EXCEPT ![i] =
                                [u \in UnitIds |-> IF u <= Len(wt) THEN "exists" ELSE "idle"]]
                   /\ joinIdx' = [joinIdx EXCEPT ![i] = 1]
                   /\ pc' = [pc EXCEPT ![i] = "await"]
                   /\ UNCHANGED <<result, message>>
    /\ UNCHANGED <<store, store0, faults, raw, bucketOk, key, img, joinFailed, src, tgt>>
    /\ UNCHANGED keyVars

\* a spawned task: object_exists on its sized key
UnitExists(i, u) ==
    /\ upc[i][u] = "exists"
    /\ \E o \in ExistsOutcomes(TargetKey(i, u)) :
         /\ tgt' = [tgt EXCEPT ![i][u] =
                      [@ EXCEPT !.exists = @ + 1, !.found = o,
                                !.failed = IF o = "error" THEN "exists" ELSE "none"]]
         /\ upc' = [upc EXCEPT ![i][u] =
                      IF o = "error" THEN "err"
                      ELSE IF o = "present" THEN "ok" ELSE "encode"]
    /\ UNCHANGED <<store, store0, faults, raw, bucketOk, pc, key, img, width_targets,
                   joinIdx, result, message, joinFailed, src>>
    /\ UNCHANGED keyVars

\* a spawned task: convert_to_webp(&img, Some(width))
UnitEncode(i, u) ==
    /\ upc[i][u] = "encode"
    /\ \E o \in EncodeOutcomes :
         /\ tgt' = [tgt EXCEPT ![i][u] =
                      [@ EXCEPT !.encode = @ + 1,
                                !.failed = IF o = "error" THEN "encode" ELSE "none"]]
         /\ upc' = [upc EXCEPT ![i][u] = IF o = "error" THEN "err" ELSE "put"]
    /\ UNCHANGED <<store, store0, faults, raw, bucketOk, pc, key, img, width_targets,
                   joinIdx, result, message, joinFailed, src>>
    /\ UNCHANGED keyVars

\* a spawned task: put_webp_object of its sized derivative
UnitPut(i, u) ==
    /\ upc[i][u] = "put"
    /\ \E o \in PutOutcomes :
         /\ tgt' = [tgt EXCEPT ![i][u] =
                      [@ EXCEPT !.put = @ + 1,
                                !.failed = IF o = "error" THEN "put" ELSE "none"]]
         /\ upc' = [upc EXCEPT ![i][u] = IF o = "error" THEN "err" ELSE "ok"]
         /\ store' = IF o = "error" THEN store
                     ELSE StorePut(store, TargetKey(i, u),
                                   convert_to_webp(img[i], TargetWidth(i, u)))
    /\ UNCHANGED <<store0, faults, raw, bucketOk, pc, key, img, width_targets,
                   joinIdx, result, message, joinFailed, src>>
    /\ UNCHANGED keyVars

\* a spawned task panics (or is aborted): its JoinHandle yields a JoinError
UnitPanic(i, u) ==
    /\ "panic" \in faults
    /\ upc[i][u] \in {"exists", "encode", "put"}
    /\ upc' = [upc EXCEPT ![i][u] = "panicked"]
    /\ tgt' = [tgt EXCEPT ![i][u] = [@ EXCEPT !.failed = "panic"]]
    /\ UNCHANGED <<store, store0, faults, raw, bucketOk, pc, key, img, width_targets,
                   joinIdx, result, message, joinFailed, src>>
    /\ UNCHANGED keyVars

\* a variant of the join loop that returns the first task error it meets
Join_FailFast(i) ==
    /\ pc[i] = "await"
    /\ LET u == joinIdx[i]
       IN  /\ upc[i][u] \in {"ok", "err", "panicked"}
           /\ IF upc[i][u] \in {"panicked", "err"}
              THEN /\ joinFailed' = [joinFailed EXCEPT ![i] = (upc[i][u] = "panicked")]
                   /\ Return(i, "Err")
                   /\ UNCHANGED joinIdx
              ELSE /\ joinIdx' = [joinIdx EXCEPT ![i] = u + 1]
                   /\ UNCHANGED joinFailed
                   /\ IF u = Len(width_targets[i])
                      THEN Return(i, "Ok")
                      ELSE UNCHANGED <<pc, result, message>>
    /\ UNCHANGED <<store, store0, faults, raw, bucketOk, key, img, width_targets, upc,
                   src, tgt>>
    /\ UNCHANGED keyVars

\* handle_key: one turn of the join loop, awaiting the next task in order
Join(i) ==
    /\ pc[i] = "await"
    /\ LET u == joinIdx[i]
       IN  /\ upc[i][u] \in {"ok", "err", "panicked"}
           /\ IF upc[i][u] = "panicked"
              THEN /\ joinFailed' = [joinFailed EXCEPT ![i] = TRUE]
                   /\ Return(i, "Err")
                   /\ UNCHANGED joinIdx
              ELSE /\ joinIdx' = [joinIdx EXCEPT ![i] = u + 1]
                   /\ UNCHANGED joinFailed
                   /\ IF u = Len(width_targets[i])
                      THEN Return(i, "Ok")
                      ELSE UNCHANGED <<pc, result, message>>
    /\ UNCHANGED <<store, store0, faults, raw, bucketOk, key, img, width_targets, upc,
                   src, tgt>>
    /\ UNCHANGED keyVars

Next ==
    \E i \in Invs :
        \/ Receive(i)
        \/ Fetch(i)
        \/ CanonExists(i)
        \/ CanonEncode(i)
        \/ CanonPut(i)
        \/ FanOut(i)
        \/ Join(i)
        \/ \E u \in UnitIds :
              \/ UnitExists(i, u)
              \/ UnitEncode(i, u)
              \/ UnitPut(i, u)
              \/ UnitPanic(i, u)

Spec == Init /\ [][Next]_vars

(* ---------------------------------------------------------------------- *)
(* The key functions on their own: every key up to MaxKeyLen              *)
(* ---------------------------------------------------------------------- *)
\* the letters a and b, '/' and '.'
KeyBytes == {97, 98, SLASH, DOT}
KeyUniverse == UNION {[1..n -> KeyBytes] : n \in 0..MaxKeyLen}
WidthOptions == {NoWidth, 480, 960}

PipeIdle ==
    /\ store = <<>> /\ store0 = <<>>
    /\ faults = {}
    /\ raw = [i \in Invs |-> <<>>]
    /\ bucketOk = [i \in Invs |-> FALSE]
    /\ pc = [i \in Invs |-> "off"]
    /\ key = [i \in Invs |-> <<>>]
    /\ img = [i \in Invs |-> <<>>]
    /\ width_targets = [i \in Invs |-> <<>>]
    /\ upc = [i \in Invs |-> [u \in UnitIds |-> "idle"]]
    /\ joinIdx = [i \in Invs |-> 0]
    /\ result = [i \in Invs |-> "pending"]
    /\ message = [i \in Invs |-> ""]
    /\ joinFailed = [i \in Invs |-> FALSE]
    /\ src = [i \in Invs |-> [gets |-> 0, decodes |-> 0, fetched |-> "none",
                              decoded |-> "none"]]
    /\ tgt = [i \in Invs |-> [t \in Targets |-> NoCalls]]

KeyInit ==
    /\ fk1 \in KeyUniverse
    /\ fk2 \in KeyUniverse
    /\ fw \in WidthOptions
    /\ fo1 = <<>> /\ fo2 = <<>>
    /\ fpc = "in"
    /\ iw = 1 /\ ih = 1 /\ rh = 0
    /\ PipeIdle

\* to_webp_key applied to both keys
DeriveCanonical ==
    /\ fpc = "in"
    /\ fw = NoWidth
    /\ fo1' = to_webp_key(fk1)
    /\ fo2' = to_webp_key(fk2)
    /\ fpc' = "out"
    /\ UNCHANGED <<fk1, fk2, fw>>
    /\ UNCHANGED dimVars
    /\ UNCHANGED pipeVars

\* to_sized_webp_key applied to both keys with one width
DeriveSized ==
    /\ fpc = "in"
    /\ fw # NoWidth
    /\ fo1' = to_sized_webp_key(fk1, fw)
    /\ fo2' = to_sized_webp_key(fk2, fw)
    /\ fpc' = "out"
    /\ UNCHANGED <<fk1, fk2, fw>>
    /\ UNCHANGED dimVars
    /\ UNCHANGED pipeVars

KeyNext == DeriveCanonical \/ DeriveSized

KeySpec == KeyInit /\ [][KeyNext]_vars

(* ---------------------------------------------------------------------- *)
(* Properties of key derivation                                           *)
(* ---------------------------------------------------------------------- *)
\* the suffix the naming convention puts in place of the extension
DerivativeSuffix(width) ==
    IF width = NoWidth THEN WebpExt ELSE <<DASH>> \o Decimal(width) \o WebpExt

\* the rule as the specification words it: last '/', then the last '.' in
\* the segment after it (the whole key when there is no '/')
RuleDerive(k, width) ==
    LET slashes == {n \in 1..Len(k) : k[n] = SLASH}
        segStart == IF slashes = {} THEN 1
                    ELSE (CHOOSE n \in slashes : \A m \in slashes : m <= n) + 1
        dots == {n \in segStart..Len(k) : k[n] = DOT}
    IN  IF dots = {} THEN k \o DerivativeSuffix(width)
        ELSE SubSeq(k, 1, (CHOOSE n \in dots : \A m \in dots : m <= n) - 1)
             \o DerivativeSuffix(width)

\* "a/b/photo.jpg" and "noext"
PhotoJpg == <<97, 47, 98, 47, 112, 104, 111, 116, 111, 46, 106, 112, 103>>
PhotoStem == <<97, 47, 98, 47, 112, 104, 111, 116, 111>>
NoExt == <<110, 111, 101, 120, 116>>

\* C9: every derived key follows the rule "last '/', then last '.' in the
\* segment after it; replace from that '.' on, else append", also for keys
\* without '/' and keys whose last segment starts with '.'; the two worked
\* examples come out as given.
C9_DerivedKeyFollowsRule ==
    /\ fpc = "out" => fo1 = RuleDerive(fk1, fw) /\ fo2 = RuleDerive(fk2, fw)
    /\ to_webp_key(PhotoJpg) = PhotoStem \o WebpExt
    /\ to_sized_webp_key(PhotoJpg, 480) = PhotoStem \o <<DASH, 52, 56, 48>> \o WebpExt
    /\ to_webp_key(NoExt) = NoExt \o WebpExt
    /\ to_sized_webp_key(NoExt, 960) = NoExt \o <<DASH, 57, 54, 48>> \o WebpExt

\* C10 as stated: two different keys never derive the same key for one width.
C10_InjectivePerWidth ==
    (fpc = "out" /\ fk1 # fk2) => fo1 # fo2

\* the bytes the derivation strips from a key: from the dot it cuts at to
\* the end, nothing when it appends. The dot it cuts at is the last dot
\* after the last '/', or, in a key without '/', the last dot after the
\* first byte.
StrippedExt(k) ==
    LET slash == IF \E n \in 1..Len(k) : k[n] = SLASH
                 THEN CHOOSE n \in 1..Len(k) :
                        k[n] = SLASH /\ \A m \in (n + 1)..Len(k) : k[m] # SLASH
                 ELSE 1
        cut == {n \in (slash + 1)..Len(k) :
                   k[n] = DOT /\ \A m \in (n + 1)..Len(k) : k[m] # DOT}
    IN  IF cut = {} THEN <<>>
        ELSE SubSeq(k, CHOOSE n \in cut : TRUE, Len(k))

\* C10 amended: two different keys with the same stripped extension never
\* derive the same key for one width; keys that differ only in the stripped
\* extension do.
C10_InjectiveOnSameExtension ==
    (fpc = "out" /\ fk1 # fk2) =>
        /\ StrippedExt(fk1) = StrippedExt(fk2) => fo1 # fo2
        /\ (/\ Len(fk1) - Len(StrippedExt(fk1)) = Len(fk2) - Len(StrippedExt(fk2))
            /\ \A n \in 1..(Len(fk1) - Len(StrippedExt(fk1))) : fk1[n] = fk2[n])
           => fo1 = fo2

\* "a.a" and "a.b" were derived, for a width
C10_Witness ==
    /\ fpc = "out" /\ fw = 480
    /\ fk1 = <<97, DOT, 97>> /\ fk2 = <<98, DOT, 97>>
    /\ fo1 # fo2

(* ---------------------------------------------------------------------- *)
(* Properties of the pipeline                                             *)
(* ---------------------------------------------------------------------- *)
\* the canonical exists check, encode or put of invocation i failed
CanonFailed(i) == tgt[i][Canonical].failed # "none"

\* the tasks invocation i spawned
Launched(i) == {u \in UnitIds : upc[i][u] # "idle"}

\* invocation i has returned and none of its tasks is still running
Quiet(i) ==
    /\ pc[i] = "done"
    /\ \A u \in UnitIds : upc[i][u] \in {"idle", "ok", "err", "panicked"}

\* no call was made for any sized derivative
NoSizedCalls(i) ==
    \A u \in UnitIds : upc[i][u] = "idle" /\ tgt[i][u] = NoCalls

\* the key function_handler passes to handle_key
EventKey(i) == decode_key(raw[i])

\* the body task t of invocation i writes
TargetBody(i, t) == convert_to_webp(img[i], TargetWidth(i, t))

\* C1: a failure of the canonical exists check, encode or put makes the
\* invocation return an error, and no sized task is launched: no exists
\* check and no put is made for any sized key.
C1_CanonicalFailureIsFatal ==
    \A i \in Invs :
        CanonFailed(i) =>
            /\ pc[i] = "done"
            /\ result[i] = "Err"
            /\ NoSizedCalls(i)

\* the canonical put failed
C1_Witness ==
    \E i \in Invs :
        /\ tgt[i][Canonical].failed = "put"
        /\ tgt[i][Canonical].put = 1
        /\ result[i] = "Err"

\* C2: whatever subset of the sized tasks fails in its exists check, encode
\* or put, the invocation reports success once all tasks have ended; a task
\* that has not ended can take its next step whatever its siblings did; and
\* every task that did not fail has its own outcome: its key written if it
\* was absent, untouched if it was present.
C2_UnitFailuresIsolated ==
    \A i \in Invs :
        /\ (/\ pc[i] = "done"
            /\ Launched(i) # {}
            /\ \A u \in Launched(i) : upc[i][u] \in {"ok", "err"})
           => result[i] = "Ok"
        /\ \A u \in Launched(i) :
              upc[i][u] \in {"exists", "encode", "put"} =>
                 ENABLED (UnitExists(i, u) \/ UnitEncode(i, u) \/ UnitPut(i, u))
        /\ \A u \in Launched(i) :
              upc[i][u] = "ok" =>
                 \/ /\ tgt[i][u].found = "present"
                    /\ tgt[i][u].encode = 0 /\ tgt[i][u].put = 0
                 \/ /\ tgt[i][u].found = "absent"
                    /\ tgt[i][u].encode = 1 /\ tgt[i][u].put = 1
                    /\ TargetKey(i, u) \in DOMAIN store
                    /\ store[TargetKey(i, u)] = TargetBody(i, u)

\* the put of the first task failed, the second wrote its key, the third
\* found its key, and the invocation reported success
C2_Witness ==
    \E i \in Invs :
        /\ pc[i] = "done" /\ result[i] = "Ok"
        /\ tgt[i][1].failed = "put" /\ upc[i][1] = "err"
        /\ upc[i][2] = "ok" /\ tgt[i][2].put = 1
        /\ upc[i][3] = "ok" /\ tgt[i][3].found = "present"

\* the canonical and the 480, 960 and 1440 derivatives of i's object were
\* in the bucket when the event arrived
AllExist0(i) ==
    /\ pc[i] # "off"
    /\ to_webp_key(EventKey(i)) \in DOMAIN store0
    /\ \A n \in 1..Len(FilterWidths(TARGET_WIDTHS)) :
          to_sized_webp_key(EventKey(i), FilterWidths(TARGET_WIDTHS)[n])
              \in DOMAIN store0

\* C3 as stated: with all derivatives present, the invocation makes no put,
\* leaves the bucket as it was and reports success.
C3_ReinvocationSucceeds ==
    \A i \in Invs :
        AllExist0(i) =>
            /\ \A t \in Targets : tgt[i][t].put = 0
            /\ store = store0
            /\ pc[i] = "done" => result[i] = "Ok"

\* C3 amended: with all derivatives present, the invocation makes no put and
\* leaves the bucket as it was; it reports success unless the existence
\* check of the canonical key fails or the join of a task fails, and then
\* it reports the error.
C3_ReinvocationWritesNothing ==
    \A i \in Invs :
        AllExist0(i) =>
            /\ \A t \in Targets : tgt[i][t].put = 0 /\ tgt[i][t].encode = 0
            /\ store = store0
            /\ pc[i] = "done" =>
                  /\ result[i] \in {"Ok", "Err"}
                  /\ result[i] = "Err" <=>
                        (tgt[i][Canonical].failed = "exists" \/ joinFailed[i])

\* all four keys were found and the invocation reported success
C3_Witness ==
    \E i \in Invs :
        /\ AllExist0(i)
        /\ pc[i] = "done" /\ result[i] = "Ok" /\ message[i] = SuccessMsg
        /\ tgt[i][Canonical].found = "present"
        /\ \A u \in 1..3 : tgt[i][u].found = "present"

\* C4: a source whose bytes do not decode ends the invocation with success,
\* without any exists check or put.
C4_UndecodableIsSkipped ==
    \A i \in Invs :
        src[i].decoded = "unsupported" =>
            /\ pc[i] = "done"
            /\ result[i] = "Ok"
            /\ \A t \in Targets : tgt[i][t] = NoCalls
            /\ store = store0

\* the source was fetched and did not decode
C4_Witness ==
    \E i \in Invs :
        /\ src[i].fetched = "ok" /\ src[i].decoded = "unsupported"
        /\ src[i].decodes = 1
        /\ result[i] = "Ok"

\* C5 as stated: a fetch that fails with an error other than NotFound makes
\* the invocation return an error.
C5_HardFetchErrorIsFatal ==
    \A i \in Invs :
        (src[i].fetched = "error" /\ pc[i] = "done") => result[i] = "Err"

\* C5 amended: a fetch that fails with an error other than NotFound is
\* skipped like a missing source: the invocation reports success and
\* decodes, checks and writes nothing.
C5_HardFetchErrorIsSkipped ==
    \A i \in Invs :
        src[i].fetched = "error" =>
            /\ pc[i] = "done"
            /\ result[i] = "Ok" /\ message[i] = SuccessMsg
            /\ src[i].decodes = 0
            /\ \A t \in Targets : tgt[i][t] = NoCalls
            /\ store = store0

\* the get of a source that is in the bucket failed
C5_Witness ==
    \E i \in Invs :
        /\ src[i].fetched = "error" /\ src[i].gets = 1
        /\ key[i] \in DOMAIN store
        /\ pc[i] = "done"

\* C6: a source that is not found ends the invocation with success, with
\* no decode, no exists check and no put.
C6_MissingSourceIsSkipped ==
    \A i \in Invs :
        src[i].fetched = "notfound" =>
            /\ pc[i] = "done"
            /\ result[i] = "Ok"
            /\ src[i].decodes = 0
            /\ \A t \in Targets : tgt[i][t] = NoCalls
            /\ store = store0

\* the get of a source that is not in the bucket answered NotFound
C6_Witness ==
    \E i \in Invs :
        /\ src[i].fetched = "notfound" /\ src[i].gets = 1
        /\ key[i] \notin DOMAIN store
        /\ pc[i] = "done"

\* the join loop of i stopped at a task that panicked
JoinFailedAt(i) ==
    /\ joinIdx[i] \in Launched(i)
    /\ upc[i][joinIdx[i]] = "panicked"
    /\ joinFailed[i]

\* C7: the invocation reports an error exactly when the canonical step
\* failed or the join of a task failed; the unsupported payload, the
\* missing source and the undecodable source report success.
C7_ErrorIffFatal ==
    \A i \in Invs :
        pc[i] = "done" =>
            /\ result[i] \in {"Ok", "Err"}
            /\ result[i] = "Err" <=> (CanonFailed(i) \/ JoinFailedAt(i))
            /\ (message[i] = UnsupportedMsg
                \/ src[i].fetched \in {"notfound", "error"}
                \/ src[i].decoded = "unsupported") => result[i] = "Ok"

\* a task returned an error, a later one panicked, and the join reported it
C7_Witness ==
    \E i \in Invs :
        /\ pc[i] = "done" /\ result[i] = "Err"
        /\ ~CanonFailed(i)
        /\ upc[i][1] = "err" /\ upc[i][2] = "panicked" /\ joinIdx[i] = 2

\* the targets of invocation i: the canonical one and one per task
TargetsOf(i) == {Canonical} \cup Launched(i)

\* the key and the body target t of invocation i stands for, from the event
ClaimKey(i, t) ==
    IF t = Canonical THEN to_webp_key(EventKey(i))
    ELSE to_sized_webp_key(EventKey(i), FilterWidths(TARGET_WIDTHS)[t])
ClaimBody(i, t) ==
    convert_to_webp(img[i],
        IF t = Canonical THEN NoWidth ELSE FilterWidths(TARGET_WIDTHS)[t])

\* C8 as stated: a target found present is neither encoded nor put, and
\* every other target whose key was absent is encoded and written.
C8_PresentSkippedOthersWritten ==
    \A i \in Invs : \A t \in TargetsOf(i) :
        tgt[i][t].found = "present" =>
            /\ tgt[i][t].encode = 0 /\ tgt[i][t].put = 0
            /\ Quiet(i) =>
                  \A t2 \in TargetsOf(i) \ {t} :
                      TargetKey(i, t2) \notin DOMAIN store0 =>
                          /\ tgt[i][t2].encode = 1 /\ tgt[i][t2].put = 1
                          /\ TargetKey(i, t2) \in DOMAIN store

\* C8 amended: a target found present is neither encoded nor put, and every
\* other target whose key was absent is encoded and written unless its own
\* exists check, encode or put fails or its task panics.
C8_PresentSkippedOthersProceed ==
    \A i \in Invs : \A t \in Targets :
        tgt[i][t].found = "present" =>
            /\ tgt[i][t].encode = 0 /\ tgt[i][t].put = 0
            /\ ClaimKey(i, t) \in DOMAIN store0
            /\ store[ClaimKey(i, t)] = store0[ClaimKey(i, t)]
            /\ Quiet(i) =>
                  \A t2 \in (Canonical..Len(FilterWidths(TARGET_WIDTHS))) \ {t} :
                      (/\ ClaimKey(i, t2) \notin DOMAIN store0
                       /\ tgt[i][t2].failed = "none") =>
                          /\ tgt[i][t2].encode = 1 /\ tgt[i][t2].put = 1
                          /\ ClaimKey(i, t2) \in DOMAIN store
                          /\ store[ClaimKey(i, t2)] = ClaimBody(i, t2)

\* the canonical key was found, the 480 key was absent and has been written
C8_Witness ==
    \E i \in Invs :
        /\ Quiet(i)
        /\ tgt[i][Canonical].found = "present"
        /\ TargetKey(i, 1) \notin DOMAIN store0
        /\ tgt[i][1].put = 1 /\ upc[i][1] = "ok"
        /\ TargetKey(i, 1) \in DOMAIN store

(* ---------------------------------------------------------------------- *)
(* Properties of the fan-out                                              *)
(* ---------------------------------------------------------------------- *)
\* the targets of one invocation have pairwise different keys
OwnKeys ==
    \A i \in Invs : \A t1, t2 \in TargetsOf(i) :
        t1 # t2 => TargetKey(i, t1) # TargetKey(i, t2)

\* a step in which task u of invocation i puts changes the bucket at the
\* key of u only, and a step in which it checks finds what is at that key
TouchesOwnKeyOnly ==
    \A i \in Invs : \A u \in UnitIds :
        /\ tgt'[i][u].put > tgt[i][u].put =>
              \A k \in DOMAIN store' :
                  k # TargetKey(i, u) => k \in DOMAIN store /\ store'[k] = store[k]
        /\ tgt'[i][u].exists > tgt[i][u].exists =>
              /\ tgt'[i][u].found = "present" => TargetKey(i, u) \in DOMAIN store
              /\ tgt'[i][u].found = "absent" => TargetKey(i, u) \notin DOMAIN store

\* C11: for every key and two different widths the sized keys differ, and
\* both differ from the canonical key; so in every interleaving each task
\* checks and puts its own key only and no two tasks of an invocation write
\* the same key.
C11_UnitsTouchOwnKeys ==
    /\ \A k \in KeyUniverse : \A n1, n2 \in 1..Len(TARGET_WIDTHS) :
          /\ to_sized_webp_key(k, TARGET_WIDTHS[n1]) # to_webp_key(k)
          /\ n1 # n2 => to_sized_webp_key(k, TARGET_WIDTHS[n1])
                          # to_sized_webp_key(k, TARGET_WIDTHS[n2])
    /\ []OwnKeys
    /\ [][TouchesOwnKeyOnly]_vars

\* the tasks for 480 and 960 both wrote, each its own key and body
C11_Witness ==
    \E i \in Invs :
        /\ upc[i][1] = "ok" /\ tgt[i][1].put = 1
        /\ upc[i][2] = "ok" /\ tgt[i][2].put = 1
        /\ TargetKey(i, 1) \notin DOMAIN store0
        /\ TargetKey(i, 2) \notin DOMAIN store0
        /\ store[TargetKey(i, 1)] = TargetBody(i, 1)
        /\ store[TargetKey(i, 2)] = TargetBody(i, 2)

(* ---------------------------------------------------------------------- *)
(* decode_key on its own: every raw key up to MaxRawLen                   *)
(* ---------------------------------------------------------------------- *)
\* '+', '%', and the characters 2 3 8 C F: enough to write %2F, %FF, %C3%83
RawBytes == {PLUS, PERCENT, 50, 51, 56, 67, 70}
RawUniverse == UNION {[1..n -> RawBytes] : n \in 0..MaxRawLen}

DecodeInit ==
    /\ fk1 \in RawUniverse
    /\ fk2 = <<>> /\ fw = NoWidth
    /\ fo1 = <<>> /\ fo2 = <<>>
    /\ fpc = "raw"
    /\ iw = 1 /\ ih = 1 /\ rh = 0
    /\ PipeIdle

\* decode_key applied to the raw key
DecodeKey ==
    /\ fpc = "raw"
    /\ fo1' = decode_key(fk1)
    /\ fpc' = "decoded"
    /\ UNCHANGED <<fk1, fk2, fw, fo2>>
    /\ UNCHANGED dimVars
    /\ UNCHANGED pipeVars

DecodeNext == DecodeKey

DecodeSpec == DecodeInit /\ [][DecodeNext]_vars

(* ---------------------------------------------------------------------- *)
(* Properties of decode_key                                               *)
(* ---------------------------------------------------------------------- *)
IsHex(b) == (b >= 48 /\ b <= 57) \/ (b >= 65 /\ b <= 70) \/ (b >= 97 /\ b <= 102)
HexValue(b) == IF b <= 57 THEN b - 48 ELSE IF b <= 70 THEN b - 55 ELSE b - 87

\* the offsets where an escape %XY starts (escapes cannot overlap: a hex
\* digit is not '%')
Escapes(s) ==
    {p \in 1..(Len(s) - 2) : s[p] = PERCENT /\ IsHex(s[p + 1]) /\ IsHex(s[p + 2])}

\* percent-decoding as a rule: every escape %XY stands for the byte XY,
\* every other byte for itself
RECURSIVE RuleBytesFrom(_, _)
RuleBytesFrom(s, p) ==
    IF p > Len(s) THEN <<>>
    ELSE IF p \in Escapes(s)
         THEN <<16 * HexValue(s[p + 1]) + HexValue(s[p + 2])>> \o RuleBytesFrom(s, p + 3)
         ELSE <<s[p]>> \o RuleBytesFrom(s, p + 1)
RulePercentDecode(s) == RuleBytesFrom(s, 1)

\* '+' replaced by a space, byte by byte
RulePlusToSpace(s) == [n \in 1..Len(s) |-> IF s[n] = PLUS THEN SPACE ELSE s[n]]

\* percent-decoding of the '+'-substituted key yields text (valid UTF-8)
DecodingSucceeds(s) == ValidUtf8(RulePercentDecode(RulePlusToSpace(s)))

\* "folder%2Fa+b.png" and "folder/a b.png"
FolderRaw == <<102, 111, 108, 100, 101, 114, 37, 50, 70, 97, 43, 98, 46, 112, 110, 103>>
FolderDecoded == <<102, 111, 108, 100, 101, 114, 47, 97, 32, 98, 46, 112, 110, 103>>

\* C12: decode_key gives the percent-decoding of the key with every '+'
\* replaced by a space; a key with neither '+' nor '%' is returned as it is,
\* the empty key gives the empty key, and "folder%2Fa+b.png" gives
\* "folder/a b.png".
C12_DecodeKeyIsPlusThenPercent ==
    /\ fpc = "decoded" =>
          /\ DecodingSucceeds(fk1) => fo1 = RulePercentDecode(RulePlusToSpace(fk1))
          /\ (\A n \in 1..Len(fk1) : fk1[n] \notin {PLUS, PERCENT}) => fo1 = fk1
          /\ fk1 = <<>> => fo1 = <<>>
    /\ decode_key(FolderRaw) = FolderDecoded

\* "%2F+" was decoded to "/ ": the escape and the plus were both replaced
C12_Witness ==
    /\ fpc = "decoded"
    /\ fk1 = <<PERCENT, 50, 70, PLUS>>
    /\ fo1 = <<SLASH, SPACE>>

\* C13: when percent-decoding of the '+'-substituted key fails, decode_key
\* returns the '+'-substituted key, otherwise undecoded.
C13_FallbackIsPlusSubstituted ==
    (fpc = "decoded" /\ ~DecodingSucceeds(fk1)) => fo1 = RulePlusToSpace(fk1)

(* ---------------------------------------------------------------------- *)
(* A duplicate delivery: two invocations for one unchanged source         *)
(* ---------------------------------------------------------------------- *)
\* the event for "a.b", an image, is delivered twice; no derivative is there
\* yet, or the canonical and the 480 one are; puts may fail, or tasks panic
DupInit ==
    /\ PipeInitWith({1, 2}, { <<97, DOT, 98>> }, {"img"},
                    { {}, {NoWidth, 480} }, { {"put"}, {"panic"} })
    /\ KeyIdle

DupSpec == DupInit /\ [][Next]_vars

\* the bucket a single invocation for i's event leaves when nothing fails:
\* what was there, and each missing derivative computed from the source
SingleRunStore(i) ==
    LET k0 == EventKey(i)
        ws == FilterWidths(TARGET_WIDTHS)
        wanted == {<<derive_key(k0, w), w>> :
                       w \in {NoWidth} \cup {ws[n] : n \in 1..Len(ws)}}
        missing == {e \in wanted : e[1] \notin DOMAIN store0}
    IN  [k \in DOMAIN store0 \cup {e[1] : e \in missing} |->
            IF k \in DOMAIN store0 THEN store0[k]
            ELSE convert_to_webp(store0[k0],
                     (CHOOSE e \in missing : e[1] = k)[2])]

\* nothing failed in invocation i
NoFailure(i) ==
    /\ result[i] = "Ok"
    /\ \A t \in Targets : tgt[i][t].failed = "none"

\* i1 and i2 are two invocations for the same source object of a bucket
Duplicates(i1, i2) ==
    /\ i1 # i2 /\ pc[i1] # "off" /\ pc[i2] # "off"
    /\ raw[i1] = raw[i2]
    /\ bucketOk[i1] /\ bucketOk[i2]
    /\ LET k0 == EventKey(i1)
       IN  k0 \in DOMAIN store0 /\ Decodable(store0[k0])

\* C14: with two concurrent invocations for the same unchanged source, in
\* every interleaving each key of the bucket holds what it held before or
\* the derivative computed from the source for that key's width, no other
\* key is written, and once both have ended and one of them met no failure
\* the bucket is the one a single invocation leaves.
C14_DuplicateDeliveryConverges ==
    \A i1, i2 \in Invs :
        (i1 < i2 /\ Duplicates(i1, i2)) =>
            LET single == SingleRunStore(i1)
            IN  /\ DOMAIN store0 \subseteq DOMAIN store
                /\ \A k \in DOMAIN store :
                      k \in DOMAIN single /\ store[k] = single[k]
                /\ (Quiet(i1) /\ Quiet(i2) /\ (NoFailure(i1) \/ NoFailure(i2)))
                      => store = single

\* both invocations found the canonical key absent and both put it; both
\* have ended and the bucket is the one a single invocation leaves
C14_Witness ==
    /\ Duplicates(1, 2)
    /\ tgt[1][Canonical].found = "absent" /\ tgt[1][Canonical].put = 1
    /\ tgt[2][Canonical].found = "absent" /\ tgt[2][Canonical].put = 1
    /\ NoFailure(1) /\ NoFailure(2)
    /\ Quiet(1) /\ Quiet(2)
    /\ store = SingleRunStore(1)
    /\ store # store0

(* ---------------------------------------------------------------------- *)
(* The resize height on its own: every image up to DimMax x DimMax        *)
(* ---------------------------------------------------------------------- *)
ResizeInit ==
    /\ iw \in 1..DimMax
    /\ ih \in 1..DimMax
    /\ fw \in 1..MaxResizeWidth
    /\ rh = 0
    /\ fk1 = <<>> /\ fk2 = <<>> /\ fo1 = <<>> /\ fo2 = <<>>
    /\ fpc = "image"
    /\ PipeIdle

\* convert_to_webp(&img, Some(fw)) computes the height it asks for
RequestHeight ==
    /\ fpc = "image"
    /\ rh' = resize_height(ih, iw, fw)
    /\ fpc' = "resized"
    /\ UNCHANGED <<fk1, fk2, fw, fo1, fo2, iw, ih>>
    /\ UNCHANGED pipeVars

ResizeNext == RequestHeight

ResizeSpec == ResizeInit /\ [][ResizeNext]_vars

(* ---------------------------------------------------------------------- *)
(* Properties of the resize height                                        *)
(* ---------------------------------------------------------------------- *)
\* H*w/W truncated: the largest integer n with n*W <= H*w
IsTruncated(n, h, w, width) == n * w <= h * width /\ h * width < (n + 1) * w

\* round(H*w/W), halves rounded up: the integer n with 2*n*W <= 2*H*w + W
\* < 2*(n+1)*W; the distance from n to it is at most one
WithinOneOfRounded(n, h, w, width) ==
    \E r \in {n - 1, n, n + 1} :
        2 * r * w <= 2 * h * width + w /\ 2 * h * width + w < 2 * (r + 1) * w

\* C15 as stated: the requested height is H*w/W truncated toward zero, at
\* most one pixel from round(H*w/W).
C15_HeightIsTruncatedQuotient ==
    fpc = "resized" =>
        /\ IsTruncated(rh, ih, iw, fw)
        /\ WithinOneOfRounded(rh, ih, iw, fw)

\* C15 amended: as long as H*w/W does not exceed the largest value of the
\* dimension type, the requested height is H*w/W truncated toward zero, at
\* most one pixel from round(H*w/W); beyond it the requested height is that
\* largest value.
C15_HeightIsTruncatedOrSaturated ==
    fpc = "resized" =>
        IF ih * fw < (DimMax + 1) * iw
        THEN /\ IsTruncated(rh, ih, iw, fw)
             /\ WithinOneOfRounded(rh, ih, iw, fw)
        ELSE rh = DimMax

\* an image of 3 columns and 5 rows at width 4: 20/3 is requested as 6,
\* round gives 7
C15_Witness ==
    /\ fpc = "resized"
    /\ iw = 3 /\ ih = 5 /\ fw = 4
    /\ rh = 6

(* ---------------------------------------------------------------------- *)
(* Ordering of the canonical step and the tasks                           *)
(* ---------------------------------------------------------------------- *)
\* the canonical step of invocation i ended without error: the key was
\* found, or it was absent and has been written
CanonComplete(i) ==
    /\ ~CanonFailed(i)
    /\ tgt[i][Canonical].exists = 1
    /\ \/ /\ tgt[i][Canonical].found = "present"
          /\ tgt[i][Canonical].encode = 0 /\ tgt[i][Canonical].put = 0
       \/ /\ tgt[i][Canonical].found = "absent"
          /\ tgt[i][Canonical].encode = 1 /\ tgt[i][Canonical].put = 1
    /\ to_webp_key(key[i]) \in DOMAIN store

\* a step that launches a task or makes a call for a sized key starts from a
\* state in which the canonical step is complete, and makes no canonical call
SizedAfterCanonical ==
    \A i \in Invs :
        (\E u \in UnitIds : upc'[i][u] # upc[i][u] \/ tgt'[i][u] # tgt[i][u]) =>
            /\ CanonComplete(i)
            /\ tgt'[i][Canonical] = tgt[i][Canonical]

\* C16: the canonical step has completed before any task is launched: no
\* exists check or put on a sized key precedes its completion, and after a
\* fatal canonical failure no task is ever launched.
C16_CanonicalBeforeSized ==
    /\ [](\A i \in Invs : ~NoSizedCalls(i) => CanonComplete(i))
    /\ [](\A i \in Invs : CanonFailed(i) => NoSizedCalls(i))
    /\ [][SizedAfterCanonical]_vars

\* the canonical derivative was written and a task has checked its key
C16_Witness ==
    \E i \in Invs :
        /\ tgt[i][Canonical].put = 1 /\ ~CanonFailed(i)
        /\ tgt[i][1].exists = 1

\* C17: the invocation never reports its result while a task it launched is
\* still running, also when the join of a task fails.
C17_ResultAfterAllUnits ==
    \A i \in Invs :
        pc[i] = "done" =>
            \A u \in Launched(i) : upc[i][u] \in {"ok", "err", "panicked"}

(* ---------------------------------------------------------------------- *)
(* The effective widths                                                   *)
(* ---------------------------------------------------------------------- *)
\* the keys invocation i derives from its event: the canonical one and the
\* sized ones of 480, 960 and 1440
FourKeys(i) ==
    {to_webp_key(EventKey(i))}
        \cup {to_sized_webp_key(EventKey(i), w) : w \in {480, 960, 1440}}

\* C18: the effective widths are exactly [480, 960, 1440]: one task is
\* launched per such width and none for 1920, and once an invocation on a
\* decodable source has returned with no failure, the canonical key and the
\* three sized keys exist and no other key has been written.
C18_EffectiveWidths ==
    /\ FilterWidths(TARGET_WIDTHS) = <<480, 960, 1440>>
    /\ [](\A i \in Invs :
             /\ pc[i] \in {"await", "done"} /\ Launched(i) # {} =>
                   /\ width_targets[i] = <<480, 960, 1440>>
                   /\ Launched(i) = {1, 2, 3}
             /\ upc[i][4] = "idle" /\ tgt[i][4] = NoCalls
             /\ (pc[i] = "done" /\ src[i].decoded = "ok" /\ NoFailure(i)) =>
                   /\ Launched(i) = {1, 2, 3}
                   /\ FourKeys(i) \subseteq DOMAIN store
                   /\ \A k \in DOMAIN store :
                         k \notin FourKeys(i) =>
                             k \in DOMAIN store0 /\ store[k] = store0[k])

\* nothing but the source was in the bucket, and the invocation wrote the
\* canonical derivative and the three sized ones
C18_Witness ==
    \E i \in Invs :
        /\ pc[i] = "done" /\ src[i].decoded = "ok" /\ NoFailure(i)
        /\ DOMAIN store0 = {EventKey(i)}
        /\ \A t \in 0..3 : tgt[i][t].put = 1
        /\ Cardinality(DOMAIN store) = 5

(* ---------------------------------------------------------------------- *)
(* The source object                                                      *)
(* ---------------------------------------------------------------------- *)
\* no object leaves the bucket
NothingDeleted == \A k \in DOMAIN store : k \in DOMAIN store'

\* C19: no object is ever deleted and no invocation puts to the key of its
\* own source: if the canonical key is the source key, the exists check
\* does not find it absent and nothing is encoded or put for it; no sized
\* key is the source key or its canonical key; the source keeps its content.
C19_SourceNeverOverwritten ==
    /\ [][NothingDeleted]_vars
    /\ [](\A i \in Invs :
             /\ \A t \in Targets :
                   tgt[i][t].put > 0 => TargetKey(i, t) # key[i]
             /\ (to_webp_key(key[i]) = key[i] /\ tgt[i][Canonical].exists > 0) =>
                   /\ tgt[i][Canonical].found \in {"present", "error"}
                   /\ tgt[i][Canonical].found = "present" <=> ~CanonFailed(i)
                   /\ tgt[i][Canonical].encode = 0 /\ tgt[i][Canonical].put = 0
             /\ \A n \in 1..Len(TARGET_WIDTHS) :
                   /\ to_sized_webp_key(key[i], TARGET_WIDTHS[n]) # key[i]
                   /\ to_sized_webp_key(key[i], TARGET_WIDTHS[n])
                          # to_webp_key(key[i])
             /\ src[i].fetched = "ok" =>
                   /\ key[i] \in DOMAIN store0 /\ key[i] \in DOMAIN store
                   /\ store[key[i]] = store0[key[i]])

\* the source is named a.webp: its canonical key was found, a sized
\* derivative was written and the source is as it was
C19_Witness ==
    \E i \in Invs :
        /\ key[i] = <<97>> \o WebpExt
        /\ to_webp_key(key[i]) = key[i]
        /\ tgt[i][Canonical].found = "present" /\ tgt[i][Canonical].put = 0
        /\ tgt[i][1].put = 1 /\ upc[i][1] = "ok"
        /\ store[key[i]] = store0[key[i]]

(* ---------------------------------------------------------------------- *)
(* Re-processing of derivatives: the writes of invocation 1 are events    *)
(* ---------------------------------------------------------------------- *)
ReInit ==
    /\ PipeInitWith({1}, { <<97, DOT, 98>> }, {"img"},
                    { {}, {NoWidth, 480} }, { {"panic"} })
    /\ KeyIdle

\* the bucket notifies of an object that invocation j wrote, after j has
\* returned without any failure; invocation i receives the event. The key
\* of such an object has no byte that the notification percent-encodes.
\* The events are taken one at a time: no other invocation is under way.
Retrigger(i, j) ==
    /\ i # j
    /\ pc[i] = "off"
    /\ \A x \in Invs : pc[x] = "off" \/ Quiet(x)
    /\ Quiet(j) /\ NoFailure(j)
    /\ \E t \in TargetsOf(j) :
         /\ tgt[j][t].put = 1
         /\ raw' = [raw EXCEPT ![i] = TargetKey(j, t)]
    /\ bucketOk' = [bucketOk EXCEPT ![i] = TRUE]
    /\ pc' = [pc EXCEPT ![i] = "start"]
    /\ UNCHANGED <<store, store0, faults, key, img, width_targets, upc,
                   joinIdx, result, message, joinFailed, src, tgt>>
    /\ UNCHANGED keyVars

ReNext ==
    \/ Next
    \/ \E i, j \in Invs : Retrigger(i, j)

ReSpec == ReInit /\ [][ReNext]_vars

\* invocation i processes an object that an invocation without failure wrote
Reprocessing(i) ==
    /\ pc[i] # "off"
    /\ \E j \in Invs \ {i} :
         /\ Quiet(j) /\ NoFailure(j)
         /\ \E t \in TargetsOf(j) :
               tgt[j][t].put = 1 /\ TargetKey(j, t) = EventKey(i)

\* C20: an invocation on a derivative that an earlier successful invocation
\* wrote, canonical or sized, makes no put.
C20_ReprocessingWritesNothing ==
    \A i \in Invs :
        Reprocessing(i) => \A t \in Targets : tgt[i][t].put = 0

====
